---- MODULE Spec2Model ----
(***************************************************************************)
(* Model of rsimusim/dataset.py: the Dataset ingestion methods, the        *)
(* DatasetBuilder and the quaternion resampling / interpolation helpers.   *)
(*                                                                         *)
(* Times are exact rationals <<numerator, denominator>> in lowest terms.   *)
(* np.isclose / np.allclose compare within Tolerance; every pair of        *)
(* distinct nominal times of the model is much further apart. The rounding *)
(* of floating point arithmetic is modelled where a comparison depends on  *)
(* it: an interior point of np.linspace lies up to one Ulp beside its      *)
(* nominal value (ResampleRounded). The DatasetBuilder and the Dataset are *)
(* evaluated without rounding error.                                       *)
(* Quaternions and positions are symbolic terms: the slerp and the gyro    *)
(* integrator of the crisp library are external and kept uninterpreted.    *)
(***************************************************************************)
EXTENDS Integers, Sequences, FiniteSets, TLC

\* ------------------------------------------------------------------ bounds
MaxFrame     == 3   \* frame numbers of cameras are 0..MaxFrame
MaxPoints    == 2   \* points per reconstruction are 0..MaxPoints
MaxGyro      == 3   \* gyro samples per stream are 0..MaxGyro
MaxLandmarks == 4   \* landmarks of the free-standing Dataset
MaxQLen      == 3   \* samples of a free-standing quaternion array
MaxQTime     == 3   \* largest timestamp of a free-standing quaternion array

\* Python's None: the string for a selector, the empty tuple for any other
\* optional value, which is then held as a one-element tuple
None     == "None"
NoneV    == <<>>
Some(x)  == <<x>>
Get(o)   == o[1]

\* --------------------------------------------------------------- rationals
RECURSIVE GCD(_, _)
GCD(a, b) == IF b = 0 THEN a ELSE GCD(b, a % b)

Abs(x) == IF x < 0 THEN -x ELSE x

\* n / d with d # 0, in lowest terms with a positive denominator
Rat(n, d) ==
    LET g == GCD(Abs(n), Abs(d))
        s == IF d < 0 THEN -1 ELSE 1
    IN  <<(s * n) \div g, (s * d) \div g>>

RInt(n)    == <<n, 1>>
RSub(a, b) == Rat(a[1] * b[2] - b[1] * a[2], a[2] * b[2])
RAdd(a, b) == Rat(a[1] * b[2] + b[1] * a[2], a[2] * b[2])
RMul(a, b) == Rat(a[1] * b[1], a[2] * b[2])
\* a / b; numpy's division by zero gives inf or nan, written <<0, 0>>
NotFinite  == <<0, 0>>
RDiv(a, b) == IF b[1] = 0 THEN NotFinite ELSE Rat(a[1] * b[2], a[2] * b[1])
RLt(a, b)  == a[1] * b[2] < b[1] * a[2]
RLe(a, b)  == a[1] * b[2] <= b[1] * a[2]
RAbs(a)    == <<Abs(a[1]), a[2]>>
RZero      == RInt(0)
ROne       == RInt(1)

\* ------------------------------------------------------- sequence helpers
\* the indices of s, in order, whose element satisfies P: np.flatnonzero
FlatNonZero(s, P(_)) ==
    LET idx == {i \in 1..Len(s) : P(s[i])}
        RECURSIVE Asc(_, _)
        Asc(i, acc) == IF i > Len(s) THEN acc
                       ELSE Asc(i + 1, IF i \in idx THEN Append(acc, i) ELSE acc)
    IN  Asc(1, <<>>)

\* np.diff
Diff(ts) == [i \in 1..(Len(ts) - 1) |-> RSub(ts[i + 1], ts[i])]

\* the tolerance of np.isclose / np.allclose, and the largest rounding error
\* of a computed time: both far below the gaps between nominal times
Tolerance == Rat(1, 100)
Ulp       == Rat(1, 1000)


\* a comparison that takes two times as close only when they are the same
IsClose_Exact(a, b) == a = b

\* a comparison that takes no two times as close
IsClose_Never(a, b) == FALSE

\* np.isclose(a, b)
IsClose(a, b) == RLe(RAbs(RSub(a, b)), Tolerance)


\* a comparison that takes any sequence of intervals as uniform
AllClose_Any(xs, x) == TRUE

\* np.allclose(xs, x)
AllClose(xs, x) == \A i \in 1..Len(xs) : IsClose(xs[i], x)

\* np.argmin over rationals: the first index of a smallest element
ArgMin(xs) ==
    CHOOSE i \in 1..Len(xs) :
        /\ \A j \in 1..Len(xs) : RLe(xs[i], xs[j])
        /\ \A j \in 1..(i - 1) : RLt(xs[i], xs[j])


\* np.linspace with endpoint=False: num points, the last one before `last`
LinSpace_NoEndpoint(first, last, num) ==
    [k \in 1..num |->
        RAdd(first, RDiv(RMul(RInt(k - 1), RSub(last, first)), RInt(num)))]

\* np.linspace(first, last, num): num points, the last one exactly `last`
LinSpace(first, last, num) ==
    [k \in 1..num |->
        IF num = 1 THEN first
        ELSE IF k = num THEN last
        ELSE RAdd(first, RDiv(RMul(RInt(k - 1), RSub(last, first)), RInt(num - 1)))]

\* the rounding errors of the num points of np.linspace(first, last, num),
\* in Ulp: the first point is first + 0 * step and the last one is assigned,
\* so both are exact, and so is every point when the step is 0
Roundings(first, last, num) ==
    {err \in [1..num -> {-1, 0, 1}] :
        \A k \in 1..num : (k \in {1, num} \/ first = last) => err[k] = 0}
NoRounding(num) == [k \in 1..num |-> 0]

\* np.linspace as floating point arithmetic computes it, for the rounding
\* errors err
RoundedLinSpace(first, last, num, err) ==
    [k \in 1..num |-> RAdd(LinSpace(first, last, num)[k], RMul(RInt(err[k]), Ulp))]

StrictlyIncreasing(ts) == \A i \in 1..(Len(ts) - 1) : RLt(ts[i], ts[i + 1])

\* ------------------------------------------------------------ quaternions
\* orientation of the camera at frame number n (an opaque unit quaternion)
CamQ(n) == [kind |-> "cam", id |-> n, sign |-> 1]
\* position of the camera at frame number n, position of the k-th point
CamP(n)   == <<"campos", n>>
PointP(k) == <<"point", k>>
\* k-th sample of a free-standing quaternion array
SampleQ(k) == [kind |-> "sample", id |-> k, sign |-> 1]
Identity   == [kind |-> "identity", sign |-> 1]

\* crisp.rotations.slerp(q0, q1, tau): external, kept as a term
Slerp(q0, q1, tau) == [kind |-> "slerp", q0 |-> q0, q1 |-> q1, tau |-> tau, sign |-> 1]

\* Quaternion.conjugate
Conjugate(q) == [kind |-> "conj", of |-> q, sign |-> q.sign]

\* QuaternionArray.unflipped(): every quaternion is negated when that brings
\* it nearer to its predecessor. The symbolic quaternions of the model lie
\* in one hemisphere up to their sign, so each sample takes the sign of the
\* first one.
Unflipped(qa) ==
    [i \in 1..Len(qa) |-> [qa[i] EXCEPT !.sign = qa[1].sign]]

\* crisp.fastintegrate.integrate_gyro_quaternion_uniform(gyro, dt, initial):
\* external; one quaternion per gyro sample, determined by the samples up to
\* it, the interval and the initial orientation.
IntegrateGyro(rows, dt, initial) ==
    [k \in 1..Len(rows) |->
        [kind |-> "gyro", upto |-> SubSeq(rows, 1, k), dt |-> dt,
         initial |-> initial, conj |-> FALSE, sign |-> 1]]

\* q *= [1, -1, -1, -1]: conjugation of every row of an integrated array
ConjugateRows(qa) ==
    [k \in 1..Len(qa) |-> [qa[k] EXCEPT !.conj = ~qa[k].conj]]

\* Python's s[i - 1] for a 0-based i >= 0: index -1 is the last element.
\* Indices of the model are 1-based, so i = 1 wraps around to Len(s).
PyPrev(i, n) == IF i = 1 THEN n ELSE i - 1

\* np.clip(x, 0, 1); -inf and +inf clip to the bounds
Clip01(x, negative) ==
    IF x = NotFinite THEN (IF negative THEN RZero ELSE ROne)
    ELSE IF RLt(x, RZero) THEN RZero
    ELSE IF RLt(ROne, x) THEN ROne
    ELSE x

Raised(kind) == [status |-> kind]

\* quaternion_array_interpolate(qa, qtimes, t)
quaternion_array_interpolate(qa, qtimes, t) ==
    LET later == FlatNonZero(qtimes, LAMBDA x : RLt(t, x))
    IN  IF later = <<>> THEN Raised("IndexError")
        ELSE
          LET i   == later[1]
              p   == PyPrev(i, Len(qtimes))
              q0  == qa[p]
              q1  == qa[i]
              t0  == qtimes[p]
              t1  == qtimes[i]
              tau == Clip01(RDiv(RSub(t, t0), RSub(t1, t0)), RLt(t, t0))
          IN  [status |-> "ok", value |-> Slerp(q0, q1, tau),
               i |-> i, prev |-> p, tau |-> tau]

\* one iteration of the loop of resample_quaternion_array, for target time t
ResampleAt(qa, timestamps, t) ==
    LET notbefore == FlatNonZero(timestamps, LAMBDA x : RLe(t, x))
    IN  IF notbefore = <<>> THEN Raised("IndexError")
        ELSE
          LET i  == notbefore[1]
              t1 == timestamps[i]
          IN  IF IsClose(t1, t)
              THEN [status |-> "ok", value |-> qa[i], branch |-> "copy",
                    i |-> i, prev |-> i, tau |-> RZero]
              ELSE
                LET p   == PyPrev(i, Len(timestamps))
                    t0  == timestamps[p]
                    tau == RDiv(RSub(t, t0), RSub(t1, t0))
                IN  [status |-> "ok", value |-> Slerp(qa[p], qa[i], tau),
                     branch |-> "slerp", i |-> i, prev |-> p, tau |-> tau]


\* a resampling that hands back the samples at their own timestamps
resample_Unchanged(qa, timestamps, resize) ==
    [status |-> "ok", values |-> qa, timestamps |-> timestamps, steps |-> <<>>]

\* num_samples = resize if resize is not None else len(qa)
NumSamples(qa, resize) == IF resize # NoneV THEN Get(resize) ELSE Len(qa)

\* the loop of resample_quaternion_array over the target times timestamps_new
ResampleLoop(qa, timestamps, timestamps_new) ==
    LET steps == [k \in 1..Len(timestamps_new) |->
                      ResampleAt(qa, timestamps, timestamps_new[k])]
    IN  IF \E k \in 1..Len(steps) : steps[k].status # "ok"
        THEN Raised("IndexError")
        ELSE [status |-> "ok",
              values |-> [k \in 1..Len(steps) |-> steps[k].value],
              timestamps |-> timestamps_new,
              steps |-> steps]

\* resample_quaternion_array(qa, timestamps, resize) with the rounding errors
\* err of its np.linspace; resize = NoneV when omitted
ResampleRounded(qa, timestamps, resize, err) ==
    IF Len(timestamps) = 0 THEN Raised("IndexError")
    ELSE ResampleLoop(qa, timestamps,
            RoundedLinSpace(timestamps[1], timestamps[Len(timestamps)],
                            NumSamples(qa, resize), err))

\* resample_quaternion_array(qa, timestamps, resize), free of rounding error
resample_quaternion_array(qa, timestamps, resize) ==
    ResampleRounded(qa, timestamps, resize, NoRounding(NumSamples(qa, resize)))

\* ------------------------------------------------- reconstruction models
\* a camera of the reconstruction: frame number, position, orientation
Camera(n) == [framenumber |-> n, position |-> CamP(n), orientation |-> CamQ(n)]

\* an NVM model: its list of cameras (frames: the frame numbers in list
\* order) and its list of points
NvmModel(frames, npoints) ==
    [cameras |-> [i \in 1..Len(frames) |-> Camera(frames[i])],
     points  |-> [k \in 1..npoints |-> [position |-> PointP(k)]]]


\* cameras taken in the order of the model's list
SortedCameras_AsListed(cams) == cams

\* sorted(cameras, key=lambda c: c.framenumber): a stable insertion sort
RECURSIVE SortedCameras(_)
SortedCameras(cams) ==
    IF Len(cams) <= 1 THEN cams
    ELSE
      LET rest == SortedCameras(SubSeq(cams, 1, Len(cams) - 1))
          c    == cams[Len(cams)]
          k    == Cardinality({i \in 1..Len(rest) :
                                  rest[i].framenumber <= c.framenumber})
      IN  SubSeq(rest, 1, k) \o <<c>> \o SubSeq(rest, k + 1, Len(rest))

\* a frame_to_time_func of a caller: n |-> offset + n / fps
TimeFunc(fps, offset) == [fps |-> fps, offset |-> offset]
ApplyTimeFunc(f, n)   == RAdd(RInt(f.offset), Rat(n, f.fps))

\* TimeSeries(timestamps, values)
TimeSeries(timestamps, values) == [timestamps |-> timestamps, values |-> values]

\* truth value of an optional TimeSeries: None and an empty series are false
Truthy(series) == series # NoneV /\ Len(Get(series).timestamps) > 0

\* ----------------------------------------------------------------- Dataset
\* Dataset.__init__
NewDataset ==
    [position_data |-> NoneV, orientation_data |-> NoneV,
     trajectory |-> None, landmarks |-> <<>>]


\* an _update_trajectory that builds a trajectory only when there is none
update_trajectory_Once(d) ==
    IF d.trajectory # None THEN d
    ELSE IF d.position_data # NoneV
    THEN [d EXCEPT !.trajectory = "SplinedPositionTrajectory"]
    ELSE [d EXCEPT !.trajectory = "SplinedRotationTrajectory(smoothRotations=False)"]

\* Dataset._update_trajectory: the trajectory variant, with the
\* smoothRotations flag of the rotation splines
update_trajectory(d) ==
    IF Truthy(d.position_data) /\ ~Truthy(d.orientation_data)
    THEN [d EXCEPT !.trajectory = "SplinedPositionTrajectory"]
    ELSE IF Truthy(d.orientation_data) /\ ~Truthy(d.position_data)
    THEN [d EXCEPT !.trajectory = "SplinedRotationTrajectory(smoothRotations=False)"]
    ELSE IF Truthy(d.position_data) /\ Truthy(d.orientation_data)
    THEN [d EXCEPT !.trajectory = "SplinedTrajectory(smoothRotations=False)"]
    ELSE d

\* the guard of lines 29 and 42: it compares the model, not camera_fps,
\* with frame_to_time_func
TimeMappingRejected(nvm_model, frame_to_time_func, camera_fps) ==
    (nvm_model = NoneV) = (frame_to_time_func = NoneV)

\* the error of evaluating frame_time(n) for the cameras, or "ok"
FrameTimeError(cameras, frame_to_time_func, camera_fps) ==
    IF frame_to_time_func # NoneV \/ Len(cameras) = 0 THEN "ok"
    ELSE IF camera_fps = NoneV THEN "TypeError"
    ELSE IF Get(camera_fps) = 0 THEN "ZeroDivisionError"
    ELSE "ok"

\* frame_time(n): frame_to_time_func if given, else float(n) / camera_fps
FrameTime(frame_to_time_func, camera_fps, n) ==
    IF frame_to_time_func # NoneV THEN ApplyTimeFunc(Get(frame_to_time_func), n)
    ELSE Rat(n, Get(camera_fps))

\* Dataset.position_from_nvm: the outcome and the Dataset after the call
position_from_nvm(d, nvm_model, frame_to_time_func, camera_fps) ==
    IF TimeMappingRejected(nvm_model, frame_to_time_func, camera_fps)
    THEN [status |-> "DatasetError", ds |-> d]
    ELSE IF nvm_model = NoneV THEN [status |-> "AttributeError", ds |-> d]
    ELSE
      LET cameras == SortedCameras(Get(nvm_model).cameras)
          err     == FrameTimeError(cameras, frame_to_time_func, camera_fps)
      IN  IF err # "ok" THEN [status |-> err, ds |-> d]
          ELSE IF Len(cameras) = 0 THEN [status |-> "ValueError", ds |-> d]
          ELSE
            LET camera_times == [i \in 1..Len(cameras) |->
                    FrameTime(frame_to_time_func, camera_fps, cameras[i].framenumber)]
                camera_pos   == [i \in 1..Len(cameras) |-> cameras[i].position]
                ts           == TimeSeries(camera_times, camera_pos)
            IN  [status |-> "ok",
                 ds |-> update_trajectory([d EXCEPT !.position_data = Some(ts)])]

\* Dataset.orientation_from_nvm
orientation_from_nvm(d, nvm_model, frame_to_time_func, camera_fps) ==
    IF TimeMappingRejected(nvm_model, frame_to_time_func, camera_fps)
    THEN [status |-> "DatasetError", ds |-> d]
    ELSE IF nvm_model = NoneV THEN [status |-> "AttributeError", ds |-> d]
    ELSE
      LET cameras == SortedCameras(Get(nvm_model).cameras)
          err     == FrameTimeError(cameras, frame_to_time_func, camera_fps)
      IN  IF err # "ok" THEN [status |-> err, ds |-> d]
          ELSE
            LET camera_times == [i \in 1..Len(cameras) |->
                    FrameTime(frame_to_time_func, camera_fps, cameras[i].framenumber)]
                camera_orientations ==
                    Unflipped([i \in 1..Len(cameras) |-> cameras[i].orientation])
                r == resample_quaternion_array(camera_orientations, camera_times, NoneV)
            IN  IF r.status # "ok" THEN [status |-> r.status, ds |-> d]
                ELSE [status |-> "ok",
                      ds |-> update_trajectory(
                          [d EXCEPT !.orientation_data =
                              Some(TimeSeries(r.timestamps, r.values))])]

\* gyro samples: an array of shape (Len(rows), d)
GyroData(d, rows) == [d |-> d, rows |-> rows]
\* the k-th angular velocity sample of a stream
GyroRow(k) == <<"w", k>>

\* Dataset.orientation_from_gyro
orientation_from_gyro(d, gyro_data, gyro_times) ==
    IF gyro_data.d = 3 THEN
        IF Len(gyro_times) < 2 THEN [status |-> "IndexError", ds |-> d, integrated |-> FALSE]
        ELSE
          LET dt == RSub(gyro_times[2], gyro_times[1])
          IN  IF ~AllClose(Diff(gyro_times), dt)
              THEN [status |-> "DatasetError", ds |-> d, integrated |-> FALSE]
              ELSE
                LET Q == IntegrateGyro(gyro_data.rows, dt, Identity)
                IN  [status |-> "ok", integrated |-> TRUE,
                     ds |-> update_trajectory([d EXCEPT !.orientation_data =
                                Some(TimeSeries(gyro_times, Unflipped(Q)))])]
    ELSE IF gyro_data.d = 4 THEN
        [status |-> "ok", integrated |-> FALSE,
         ds |-> update_trajectory([d EXCEPT !.orientation_data =
                    Some(TimeSeries(gyro_times, Unflipped(gyro_data.rows)))])]
    ELSE [status |-> "DatasetError", ds |-> d, integrated |-> FALSE]


\* a landmarks_from_nvm that walks the points from the last to the first
landmarks_from_nvm_Reversed(d, nvm_model) ==
    IF nvm_model = NoneV THEN [status |-> "AttributeError", ds |-> d]
    ELSE
      LET points == Get(nvm_model).points
      IN  [status |-> "ok",
           ds |-> [d EXCEPT !.landmarks =
                       @ \o [k \in 1..Len(points) |->
                               [position |-> points[Len(points) + 1 - k].position]]]]

\* a landmarks_from_nvm that starts the list anew
landmarks_from_nvm_Replace(d, nvm_model) ==
    IF nvm_model = NoneV THEN [status |-> "AttributeError", ds |-> d]
    ELSE
      LET points == Get(nvm_model).points
      IN  [status |-> "ok",
           ds |-> [d EXCEPT !.landmarks =
                       [k \in 1..Len(points) |-> [position |-> points[k].position]]]]

\* Dataset.landmarks_from_nvm
landmarks_from_nvm(d, nvm_model) ==
    IF nvm_model = NoneV THEN [status |-> "AttributeError", ds |-> d]
    ELSE
      LET points == Get(nvm_model).points
      IN  [status |-> "ok",
           ds |-> [d EXCEPT !.landmarks =
                       @ \o [k \in 1..Len(points) |-> [position |-> points[k].position]]]]

\* ---------------------------------------------------------- DatasetBuilder
LANDMARK_SOURCES == {"nvm"}
SOURCES          == {"imu"} \cup LANDMARK_SOURCES

\* DatasetBuilder.__init__ (the attribute _gyro_quat does not exist yet)
NewBuilder ==
    [nvm_model |-> NoneV, nvm_camera_fps |-> NoneV,
     gyro_data |-> NoneV, gyro_times |-> NoneV, gyro_quat |-> NoneV,
     orientation_source |-> None, position_source |-> None,
     landmark_source |-> None]

\* DatasetBuilder.selected_sources
selected_sources(b) ==
    [orientation |-> b.orientation_source,
     position    |-> b.position_source,
     landmark    |-> b.landmark_source]


\* an add_source_nvm that replaces a model already stored
add_source_nvm_Overwrite(b, nvm, camera_fps) ==
    [status |-> "ok",
     b |-> [b EXCEPT !.nvm_model = Some(nvm), !.nvm_camera_fps = Some(camera_fps)]]

\* DatasetBuilder.add_source_nvm
add_source_nvm(b, nvm, camera_fps) ==
    IF b.nvm_model = NoneV
    THEN [status |-> "ok",
          b |-> [b EXCEPT !.nvm_model = Some(nvm), !.nvm_camera_fps = Some(camera_fps)]]
    ELSE [status |-> "DatasetError", b |-> b]

\* DatasetBuilder.add_source_gyro: the outcome, the builder after the call
\* and whether the gyro integrator was invoked
add_source_gyro(b, gyro_data, gyro_times) ==
    IF Len(gyro_data.rows) # Len(gyro_times)
    THEN [status |-> "DatasetError", b |-> b, integrated |-> FALSE]
    ELSE IF gyro_data.d # 3
    THEN [status |-> "DatasetError", b |-> b, integrated |-> FALSE]
    ELSE IF b.gyro_data = NoneV THEN
        LET stored == [b EXCEPT !.gyro_data = Some(gyro_data),
                                !.gyro_times = Some(gyro_times)]
        IN  IF Len(gyro_times) < 2
            THEN [status |-> "IndexError", b |-> stored, integrated |-> FALSE]
            ELSE
              LET dt == RSub(gyro_times[2], gyro_times[1])
              IN  IF ~AllClose(Diff(gyro_times), dt)
                  THEN [status |-> "DatasetError", b |-> stored, integrated |-> FALSE]
                  ELSE [status |-> "ok", integrated |-> TRUE,
                        b |-> [stored EXCEPT !.gyro_quat =
                                 Some(IntegrateGyro(gyro_data.rows, dt, Identity))]]
    ELSE [status |-> "DatasetError", b |-> b, integrated |-> FALSE]

\* DatasetBuilder.set_orientation_source
set_orientation_source(b, source) ==
    IF source \in SOURCES
    THEN [status |-> "ok", b |-> [b EXCEPT !.orientation_source = source]]
    ELSE [status |-> "DatasetError", b |-> b]

\* DatasetBuilder.set_position_source
set_position_source(b, source) ==
    IF source \in SOURCES
    THEN [status |-> "ok", b |-> [b EXCEPT !.position_source = source]]
    ELSE [status |-> "DatasetError", b |-> b]


\* a set_landmark_source that checks against SOURCES
set_landmark_source_AnySource(b, source) ==
    IF source \in SOURCES
    THEN [status |-> "ok", b |-> [b EXCEPT !.landmark_source = source]]
    ELSE [status |-> "DatasetError", b |-> b]

\* DatasetBuilder.set_landmark_source
set_landmark_source(b, source) ==
    IF source \in LANDMARK_SOURCES
    THEN [status |-> "ok", b |-> [b EXCEPT !.landmark_source = source]]
    ELSE [status |-> "DatasetError", b |-> b]


\* a _can_build that forgets the position selector
can_build_NoPosition(b) ==
    /\ b.landmark_source # None
    /\ b.orientation_source # None

\* DatasetBuilder._can_build
can_build(b) ==
    /\ b.landmark_source # None
    /\ b.orientation_source # None
    /\ b.position_source # None

\* cam_times of _nvm_aligned_imu_orientations and of the camera_fps mapping:
\* the times framenumber / camera_fps of the cameras sorted by frame number
CamTimes(nvm_model, camera_fps) ==
    LET cameras == SortedCameras(nvm_model.cameras)
    IN  [i \in 1..Len(cameras) |-> Rat(cameras[i].framenumber, camera_fps)]


\* an alignment that is always anchored at the camera of the lowest frame
\* number
ReferenceCameras_First(cam_times, t0) ==
    IF cam_times = <<>> THEN <<>> ELSE <<1>>

\* np.flatnonzero(cam_times >= self._gyro_times[0]): the cameras at or after
\* the first gyro timestamp t0
ReferenceCameras(cam_times, t0) ==
    FlatNonZero(cam_times, LAMBDA x : RLe(t0, x))

\* an alignment that always starts at the first gyro sample
NearestSample_First(gyro_times, t_ref) == 1

\* gstart_idx = np.argmin(np.abs(self._gyro_times - t_ref)), 1-based
NearestSample(gyro_times, t_ref) ==
    ArgMin([i \in 1..Len(gyro_times) |-> RAbs(RSub(gyro_times[i], t_ref))])

\* DatasetBuilder._nvm_aligned_imu_orientations (the model is not None here:
\* build() has already read its points)
nvm_aligned_imu_orientations(b) ==
    LET cameras   == SortedCameras(Get(b.nvm_model).cameras)
        cam_times == CamTimes(Get(b.nvm_model), Get(b.nvm_camera_fps))
    IN  IF b.gyro_times = NoneV THEN Raised("TypeError")
        ELSE IF Len(Get(b.gyro_times)) = 0 THEN Raised("IndexError")
        ELSE
          LET gyro_times == Get(b.gyro_times)
              found == ReferenceCameras(cam_times, gyro_times[1])
          IN  IF found = <<>> THEN Raised("IndexError")
              ELSE
                LET cam_idx    == found[1]
                    cam_ref    == cameras[cam_idx]
                    t_ref      == cam_times[cam_idx]
                    gstart_idx == NearestSample(gyro_times, t_ref)
                    q_initial  == Conjugate(cam_ref.orientation)
                    rows       == Get(b.gyro_data).rows
                    gyro_part  == SubSeq(rows, gstart_idx, Len(rows))
                    gyro_part_times == SubSeq(gyro_times, gstart_idx, Len(gyro_times))
                IN  IF Len(gyro_part_times) < 2 THEN Raised("IndexError")
                    ELSE
                      LET dt == RSub(gyro_part_times[2], gyro_part_times[1])
                          q  == ConjugateRows(IntegrateGyro(gyro_part, dt, q_initial))
                      IN  [status |-> "ok", q |-> q, times |-> gyro_part_times,
                           cam_idx |-> cam_idx, t_ref |-> t_ref,
                           gstart_idx |-> gstart_idx]


\* a build() that takes the position series from the model only when the
\* position selector names the model
BuildPosition_WhenSelected(b, o) ==
    IF o.status # "ok" THEN [status |-> o.status, ds |-> o.ds]
    ELSE IF b.position_source # "nvm" THEN [status |-> "ok", ds |-> o.ds]
    ELSE position_from_nvm(o.ds, b.nvm_model, NoneV, b.nvm_camera_fps)

\* lines 195 and 200 of build(): the position series is taken from the model
\* once the orientation step o has passed
BuildPosition(b, o) ==
    IF o.status # "ok" THEN [status |-> o.status, ds |-> o.ds]
    ELSE position_from_nvm(o.ds, b.nvm_model, NoneV, b.nvm_camera_fps)

\* lines 198-199 of build(): the aligned gyro orientations a are ingested
BuildAligned(d, a) ==
    IF a.status # "ok" THEN [status |-> a.status, ds |-> d]
    ELSE orientation_from_gyro(d, GyroData(4, a.q), a.times)

\* the orientation step of build(): from the model when all three selectors
\* are 'nvm', from the aligned gyro stream when orientation is 'imu', none
\* otherwise
BuildOrientation(b, d, ss) ==
    IF ss.orientation = "nvm" /\ ss.position = "nvm" /\ ss.landmark = "nvm"
    THEN orientation_from_nvm(d, b.nvm_model, NoneV, b.nvm_camera_fps)
    ELSE IF ss.orientation = "imu"
    THEN BuildAligned(d, nvm_aligned_imu_orientations(b))
    ELSE [status |-> "ok", ds |-> d]

\* the branch of build() that fills the series of the new Dataset
BuildSeries(b, d) ==
    BuildPosition(b, BuildOrientation(b, d, selected_sources(b)))

\* the end of build(): the Dataset is returned unless a step r has raised
BuildReturn(r) ==
    IF r.status # "ok"
    THEN [status |-> r.status, message |-> "", created |-> TRUE]
    ELSE [status |-> "ok", message |-> "", created |-> TRUE, ds |-> r.ds]

\* build() from line 191 on: l is the outcome of ds.landmarks_from_nvm
BuildIngest(b, l) ==
    IF l.status # "ok"
    THEN [status |-> l.status, message |-> "", created |-> TRUE]
    ELSE BuildReturn(BuildSeries(b, l.ds))

\* DatasetBuilder.build: the outcome, the error message of a DatasetError,
\* whether the Dataset was created, and the returned Dataset
build(b) ==
    IF ~can_build(b)
    THEN [status |-> "DatasetError", message |-> "Must select all sources",
          created |-> FALSE]
    ELSE IF selected_sources(b).landmark # "nvm"
    THEN [status |-> "DatasetError", created |-> TRUE,
          message |-> "Only landmarks from NVM is supported"]
    ELSE BuildIngest(b, landmarks_from_nvm(NewDataset, b.nvm_model))


\* the builder with the gyro stream cut down to the aligned slice a
BuilderWithSlice(b, a) ==
    IF a.status # "ok" THEN b
    ELSE [b EXCEPT !.gyro_times = Some(a.times),
                   !.gyro_data = Some(GyroData(3, SubSeq(Get(b.gyro_data).rows,
                                     a.gstart_idx, Len(Get(b.gyro_data).rows))))]

\* a build() whose alignment step keeps the slice of the gyro stream it
\* integrated in place of the stored stream
BuilderAfterBuild_KeepsSlice(b) ==
    IF \/ ~can_build(b) \/ b.orientation_source # "imu" \/ b.nvm_model = NoneV
    THEN b
    ELSE BuilderWithSlice(b, nvm_aligned_imu_orientations(b))

\* the builder after build(): neither build() (lines 183-201) nor
\* _nvm_aligned_imu_orientations (lines 162-181) assigns to an attribute of
\* self; the slices of line 174-175 and the array conjugated in place at
\* line 180 are new objects
BuilderAfterBuild(b) == b

\* ----------------------------------------------------------------- inputs
\* camera frame rates (frames fall on and between the gyro timestamps), first
\* gyro timestamps and gyro sampling intervals
Fps        == {2}
GyroStarts == {0, 1}
GyroSteps  == {1, 2}

\* the frame numbers of the set S as a list in descending order (a camera
\* list that is not already sorted)
RECURSIVE Descending(_)
Descending(S) ==
    IF S = {} THEN <<>>
    ELSE LET m == CHOOSE x \in S : \A y \in S : y <= x
         IN  <<m>> \o Descending(S \ {m})

FrameLists == {Descending(S) : S \in SUBSET (0..MaxFrame)}
\* the reconstructions: every set of cameras, with 0..MaxPoints points (the
\* number of points goes round with the number of cameras)
Models     == {NvmModel(fl, Len(fl) % (MaxPoints + 1)) : fl \in FrameLists}

\* n timestamps from t0 at interval dt
UniformTimes(n, t0, dt) == [i \in 1..n |-> RInt(t0 + (i - 1) * dt)]
\* the same with the last interval one longer
NonUniformTimes(n, t0, dt) ==
    [i \in 1..n |-> RInt(t0 + (i - 1) * dt + (IF i = n THEN 1 ELSE 0))]

GyroRows(n) == [k \in 1..n |-> GyroRow(k)]
QuatRows(n) == [k \in 1..n |-> SampleQ(k)]

GyroInput(gyro_data, gyro_times) == [gyro_data |-> gyro_data, gyro_times |-> gyro_times]

\* the inputs of add_source_gyro: uniform streams, streams with a longer
\* last interval, a stream with one timestamp too many, a 4-wide stream
BuilderGyroInputs ==
    {GyroInput(GyroData(3, GyroRows(n)), UniformTimes(n, t0, dt)) :
        n \in 0..MaxGyro, t0 \in GyroStarts, dt \in GyroSteps}
    \cup {GyroInput(GyroData(3, GyroRows(n)), NonUniformTimes(n, t0, 1)) :
        n \in 3..MaxGyro, t0 \in GyroStarts}
    \cup {GyroInput(GyroData(3, GyroRows(2)), UniformTimes(3, 0, 1)),
          GyroInput(GyroData(4, QuatRows(2)), UniformTimes(2, 0, 1))}

\* what is wrong with an input of add_source_gyro, in the order the spec
\* lists the conditions; "short" is an input of fewer than two samples
GyroInputClass(g) ==
    IF Len(g.gyro_data.rows) # Len(g.gyro_times) THEN "mismatch"
    ELSE IF g.gyro_data.d # 3 THEN "width"
    ELSE IF Len(g.gyro_times) < 2 THEN "short"
    ELSE IF \E i \in 1..(Len(g.gyro_times) - 1) :
               RSub(g.gyro_times[i + 1], g.gyro_times[i])
                 # RSub(g.gyro_times[2], g.gyro_times[1])
    THEN "nonuniform"
    ELSE "valid"

SelectorInputs == {"imu", "nvm", "bogus"}

\* ---------------------------------------------------------- state machine
VARIABLES
    builder,   \* the DatasetBuilder
    ds,        \* a free-standing Dataset
    call,      \* the latest call: its name and what it was given
    result     \* its outcome: "ok" or the exception, and what it returned

vars == <<builder, ds, call, result>>

Init ==
    /\ builder = NewBuilder
    /\ ds = NewDataset
    /\ call = [op |-> "__init__"]
    /\ result = [status |-> "ok"]

AddSourceNvm ==
    \E nvm \in Models, camera_fps \in Fps :
        LET r == add_source_nvm(builder, nvm, camera_fps)
        IN  /\ builder' = r.b
            /\ call' = [op |-> "add_source_nvm"]
            /\ result' = [status |-> r.status]
            /\ UNCHANGED ds

AddSourceGyro ==
    \E g \in BuilderGyroInputs :
        LET r == add_source_gyro(builder, g.gyro_data, g.gyro_times)
        IN  /\ builder' = r.b
            /\ call' = [op |-> "add_source_gyro", input |-> GyroInputClass(g)]
            /\ result' = [status |-> r.status, integrated |-> r.integrated]
            /\ UNCHANGED ds

SetOrientationSource ==
    \E source \in SelectorInputs :
        LET r == set_orientation_source(builder, source)
        IN  /\ builder' = r.b
            /\ call' = [op |-> "set_orientation_source", source |-> source]
            /\ result' = [status |-> r.status]
            /\ UNCHANGED ds

SetPositionSource ==
    \E source \in SelectorInputs :
        LET r == set_position_source(builder, source)
        IN  /\ builder' = r.b
            /\ call' = [op |-> "set_position_source", source |-> source]
            /\ result' = [status |-> r.status]
            /\ UNCHANGED ds

SetLandmarkSource ==
    \E source \in SelectorInputs :
        LET r == set_landmark_source(builder, source)
        IN  /\ builder' = r.b
            /\ call' = [op |-> "set_landmark_source", source |-> source]
            /\ result' = [status |-> r.status]
            /\ UNCHANGED ds

Build ==
    /\ call' = [op |-> "build"]
    /\ result' = build(builder)
    /\ builder' = BuilderAfterBuild(builder)
    /\ UNCHANGED ds

Next ==
    \/ AddSourceNvm
    \/ AddSourceGyro
    \/ SetOrientationSource
    \/ SetPositionSource
    \/ SetLandmarkSource
    \/ Build

\* the DatasetBuilder under any sequence of calls of its public methods
Spec == Init /\ [][Next]_vars

\* ------------------------------------------ the free-standing Dataset
\* the reconstructions given to the free-standing Dataset: no camera, one
\* camera, three cameras at uneven frame numbers, with the camera list in
\* every order; 0..MaxPoints points (their number goes round with the frame
\* number of the first camera of the list)
DatasetFrameSets == {{}, {1}, {0, 1, 3}}
Orders(S) ==
    {fl \in [1..Cardinality(S) -> S] :
        \A i, j \in 1..Cardinality(S) : fl[i] = fl[j] => i = j}
DatasetFrameLists == UNION {Orders(S) : S \in DatasetFrameSets}
PointCount(fl) == IF fl = <<>> THEN 0 ELSE (fl[1] + 1) % (MaxPoints + 1)
DatasetModels ==
    {NvmModel(fl, PointCount(fl)) : fl \in DatasetFrameLists}

\* the arguments of position_from_nvm / orientation_from_nvm: the model (or
\* None), frame_to_time_func and camera_fps, each given or omitted
OptModels    == {NoneV} \cup {Some(m) : m \in DatasetModels}
OptTimeFuncs == {NoneV, Some(TimeFunc(1, 1))}
OptFps       == {NoneV} \cup {Some(f) : f \in Fps}

\* the inputs of orientation_from_gyro: two uniform 3-wide streams, one with
\* a longer last interval, one of a single sample, a 4-wide and a 2-wide one
DatasetGyroInputs ==
    {GyroInput(GyroData(3, GyroRows(3)), UniformTimes(3, 0, 1)),
     GyroInput(GyroData(3, GyroRows(2)), UniformTimes(2, 1, 2)),
     GyroInput(GyroData(3, GyroRows(3)), NonUniformTimes(3, 0, 1)),
     GyroInput(GyroData(3, GyroRows(1)), UniformTimes(1, 0, 1)),
     GyroInput(GyroData(4, QuatRows(2)), UniformTimes(2, 0, 1)),
     GyroInput(GyroData(2, GyroRows(2)), UniformTimes(2, 0, 1))}

PositionFromNvm ==
    \E nvm_model \in OptModels, f \in OptTimeFuncs, camera_fps \in OptFps :
        LET r == position_from_nvm(ds, nvm_model, f, camera_fps)
        IN  /\ ds' = r.ds
            /\ call' = [op |-> "position_from_nvm", nvm_model |-> nvm_model,
                        frame_to_time_func |-> f, camera_fps |-> camera_fps]
            /\ result' = [status |-> r.status]
            /\ UNCHANGED builder

OrientationFromNvm ==
    \E nvm_model \in OptModels, f \in OptTimeFuncs, camera_fps \in OptFps :
        LET r == orientation_from_nvm(ds, nvm_model, f, camera_fps)
        IN  /\ ds' = r.ds
            /\ call' = [op |-> "orientation_from_nvm", nvm_model |-> nvm_model,
                        frame_to_time_func |-> f, camera_fps |-> camera_fps]
            /\ result' = [status |-> r.status]
            /\ UNCHANGED builder

OrientationFromGyro ==
    \E g \in DatasetGyroInputs :
        LET r == orientation_from_gyro(ds, g.gyro_data, g.gyro_times)
        IN  /\ ds' = r.ds
            /\ call' = [op |-> "orientation_from_gyro", gyro_data |-> g.gyro_data,
                        gyro_times |-> g.gyro_times]
            /\ result' = [status |-> r.status, integrated |-> r.integrated]
            /\ UNCHANGED builder

LandmarksFromNvm ==
    \E nvm_model \in OptModels :
        LET r == landmarks_from_nvm(ds, nvm_model)
        IN  /\ Len(r.ds.landmarks) <= MaxLandmarks
            /\ ds' = r.ds
            /\ call' = [op |-> "landmarks_from_nvm", nvm_model |-> nvm_model]
            /\ result' = [status |-> r.status]
            /\ UNCHANGED builder

NextDataset ==
    \/ PositionFromNvm
    \/ OrientationFromNvm
    \/ OrientationFromGyro
    \/ LandmarksFromNvm

\* a Dataset under any sequence of calls of its ingestion methods
SpecDataset == Init /\ [][NextDataset]_vars

\* ------------------------------------------------ the quaternion helpers
\* strictly increasing integer timestamps 0..MaxQTime, 1..MaxQLen of them
RECURSIVE Ascending(_)
Ascending(S) ==
    IF S = {} THEN <<>>
    ELSE LET m == CHOOSE x \in S : \A y \in S : x <= y
         IN  <<RInt(m)>> \o Ascending(S \ {m})

QTimes == {Ascending(S) : S \in {T \in SUBSET (0..MaxQTime) :
                                    Cardinality(T) \in 1..MaxQLen}}

\* query times: the half-integers from -1 to MaxQTime + 1
QueryTimes == {Rat(k, 2) : k \in (-2)..(2 * MaxQTime + 2)}

\* resize: omitted, or 0..MaxQLen target samples
Resizes == {NoneV} \cup {Some(n) : n \in 0..MaxQLen}

Interpolate ==
    \E qtimes \in QTimes, t \in QueryTimes :
        /\ call' = [op |-> "quaternion_array_interpolate",
                    qa |-> QuatRows(Len(qtimes)), qtimes |-> qtimes, t |-> t]
        /\ result' = quaternion_array_interpolate(QuatRows(Len(qtimes)), qtimes, t)
        /\ UNCHANGED <<builder, ds>>

Resample ==
    \E timestamps \in QTimes, resize \in Resizes :
        \E err \in Roundings(timestamps[1], timestamps[Len(timestamps)],
                             NumSamples(QuatRows(Len(timestamps)), resize)) :
            /\ call' = [op |-> "resample_quaternion_array",
                        qa |-> QuatRows(Len(timestamps)), timestamps |-> timestamps,
                        resize |-> resize, err |-> err]
            /\ result' = ResampleRounded(QuatRows(Len(timestamps)),
                                         timestamps, resize, err)
            /\ UNCHANGED <<builder, ds>>

NextQuat ==
    \/ Interpolate
    \/ Resample

\* the quaternion helpers applied to any bounded input
SpecQuat == Init /\ [][NextQuat]_vars

\* ================================================================= claims
IsNvmIngestion(c) == c.op \in {"position_from_nvm", "orientation_from_nvm"}

\* C1 (as claimed; the code breaks it): position_from_nvm and
\* orientation_from_nvm, called with a model (here: one that has cameras) and
\* with both or with neither of frame_to_time_func and camera_fps, raise
\* DatasetError and leave the Dataset as it was.
C1_AmbiguousTimeMappingRejected ==
    [][(/\ IsNvmIngestion(call')
        /\ call'.nvm_model # NoneV
        /\ Len(Get(call'.nvm_model).cameras) > 0
        /\ ((call'.frame_to_time_func = NoneV) = (call'.camera_fps = NoneV)))
       => (result'.status = "DatasetError" /\ ds' = ds)]_vars

\* C2 (as claimed; the code breaks it): with a model that has cameras and
\* exactly one of frame_to_time_func and camera_fps, the call succeeds, and
\* the position series is keyed by the mapping that was given (the k-th value
\* is the position of a camera, whose frame number the mapping takes to the
\* k-th timestamp).
C2_ExactlyOneTimeMappingAccepted ==
    (/\ IsNvmIngestion(call)
     /\ call.nvm_model # NoneV
     /\ (call.frame_to_time_func = NoneV) # (call.camera_fps = NoneV))
    => (Len(Get(call.nvm_model).cameras) > 0
        => /\ result.status = "ok"
           /\ call.op = "position_from_nvm" =>
                LET ts == Get(ds.position_data)
                IN  \A k \in 1..Len(ts.timestamps) :
                        ts.timestamps[k] =
                            (IF call.camera_fps # NoneV
                             THEN Rat(ts.values[k][2], Get(call.camera_fps))
                             ELSE ApplyTimeFunc(Get(call.frame_to_time_func),
                                                ts.values[k][2])))

\* C5 (as claimed; the code breaks it): quaternion_array_interpolate (here: on
\* two samples or more) raises for every t before the first timestamp and for
\* every t at or after the last one.
C5_InterpolateOutOfRangeFails ==
    (/\ call.op = "quaternion_array_interpolate"
     /\ Len(call.qtimes) >= 2
     /\ (\/ RLt(call.t, call.qtimes[1])
         \/ RLe(call.qtimes[Len(call.qtimes)], call.t)))
    => result.status # "ok"

\* --------------------------------------------------------------- builder
\* C3 (as claimed; the code breaks it): an add_source_gyro that fails with a
\* DatasetError leaves every field of the builder as it was.
C3_FailedAddGyroLeavesBuilder ==
    [][(call'.op = "add_source_gyro" /\ result'.status = "DatasetError")
       => builder' = builder]_vars

\* C10 (as claimed; the code breaks it): add_source_gyro raises DatasetError
\* without integrating when the counts differ, the width is not 3 or the
\* timestamps are not uniform; an input without these faults (here: of two
\* samples or more), given to a builder to which no gyro source was added,
\* succeeds and leaves the integrated cache populated.
C10_AddGyroValidation ==
    [][call'.op = "add_source_gyro" =>
        /\ call'.input \in {"mismatch", "width", "nonuniform"}
              => (result'.status = "DatasetError" /\ ~result'.integrated)
        /\ (call'.input = "valid" /\ builder.gyro_quat = NoneV)
              => (result'.status = "ok" /\ builder'.gyro_quat # NoneV)]_vars

\* the camera times as the claims state them: the k-th smallest frame
\* number of the stored model over the stored frame rate
KthSmallest(F, k) == CHOOSE x \in F : Cardinality({y \in F : y < x}) = k - 1
StoredFrames ==
    LET cameras == Get(builder.nvm_model).cameras
    IN  {cameras[i].framenumber : i \in 1..Len(cameras)}
StoredCameraTimes ==
    [k \in 1..Cardinality(StoredFrames) |->
        Rat(KthSmallest(StoredFrames, k), Get(builder.nvm_camera_fps))]
EvenlySpaced(ts) ==
    \A k \in 1..(Len(ts) - 1) : RSub(ts[k + 1], ts[k]) = RSub(ts[2], ts[1])

BuildReturned == call.op = "build" /\ result.status = "ok"
AllNvmBuild ==
    /\ BuildReturned
    /\ builder.orientation_source = "nvm"
    /\ builder.position_source = "nvm"
    /\ builder.landmark_source = "nvm"
PositionTimes    == Get(result.ds.position_data).timestamps
OrientationTimes == Get(result.ds.orientation_data).timestamps

\* C4 (as claimed): after a build with all three selectors 'nvm' the position
\* and the orientation series both have the camera times as timestamps.
C4_AllNvmIdenticalTimestamps ==
    AllNvmBuild => /\ PositionTimes = StoredCameraTimes
                   /\ OrientationTimes = StoredCameraTimes

\* C4 (amended): after a build with all three selectors 'nvm' the position
\* series has the camera times as timestamps; the orientation series has as
\* many timestamps, evenly spaced from the first to the last camera time, so
\* the two agree exactly when the camera times are evenly spaced.
C4_AllNvmTimestamps ==
    AllNvmBuild =>
        /\ PositionTimes = StoredCameraTimes
        /\ Len(OrientationTimes) = Len(StoredCameraTimes)
        /\ OrientationTimes[1] = StoredCameraTimes[1]
        /\ OrientationTimes[Len(OrientationTimes)]
              = StoredCameraTimes[Len(StoredCameraTimes)]
        /\ EvenlySpaced(OrientationTimes)
        /\ (OrientationTimes = PositionTimes) <=> EvenlySpaced(StoredCameraTimes)

\* C4 witness: such a build of three cameras at uneven frame numbers
C4_Witness ==
    /\ AllNvmBuild
    /\ Len(PositionTimes) = 3
    /\ OrientationTimes # PositionTimes

ImuBuild ==
    /\ BuildReturned
    /\ builder.orientation_source = "imu"
    /\ builder.position_source = "nvm"
    /\ builder.landmark_source = "nvm"
    /\ builder.gyro_quat # NoneV
StoredGyroTimes == Get(builder.gyro_times)
GyroInterval    == RSub(StoredGyroTimes[2], StoredGyroTimes[1])

\* C6 (as claimed): after a build with orientation='imu', position='nvm',
\* landmark='nvm' from a uniform gyro stream, the orientation series starts
\* at or after the time of the first camera.
C6_OrientationStartsAtFirstCamera ==
    ImuBuild => RLe(StoredCameraTimes[1], OrientationTimes[1])

\* C6 (amended): ... the orientation series starts at or after the first gyro
\* timestamp and no more than half a gyro sampling interval before the time
\* of the first camera; it starts at or after that time when the time is a
\* gyro timestamp or lies before the first gyro timestamp.
C6_OrientationStartNearFirstCamera ==
    ImuBuild =>
        /\ RLe(StoredGyroTimes[1], OrientationTimes[1])
        /\ RLe(RMul(RInt(2), RSub(StoredCameraTimes[1], OrientationTimes[1])),
               GyroInterval)
        /\ (\/ \E i \in 1..Len(StoredGyroTimes) :
                  StoredGyroTimes[i] = StoredCameraTimes[1]
            \/ RLt(StoredCameraTimes[1], StoredGyroTimes[1]))
           => RLe(StoredCameraTimes[1], OrientationTimes[1])

\* C6 witness: such a build whose orientation series starts before the time
\* of the first camera
C6_Witness ==
    ImuBuild /\ RLt(OrientationTimes[1], StoredCameraTimes[1])

SomeSelectorUnset(b) ==
    \/ b.orientation_source = None
    \/ b.position_source = None
    \/ b.landmark_source = None

\* C7: build() fails with the DatasetError 'Must select all sources', before
\* it creates the Dataset, exactly when one of the three selectors is unset;
\* and once all three are set no call unsets one.
C7_BuildNeedsAllSelectors ==
    /\ [](call.op = "build" =>
            /\ (result.status = "DatasetError" /\ ~result.created)
                  <=> SomeSelectorUnset(builder)
            /\ (result.message = "Must select all sources")
                  <=> SomeSelectorUnset(builder))
    /\ [][~SomeSelectorUnset(builder) => ~SomeSelectorUnset(builder')]_vars

\* C7 witness: a build refused with orientation and position selected and no
\* landmark source selected
C7_Witness ==
    /\ call.op = "build"
    /\ result.status = "DatasetError"
    /\ ~result.created
    /\ builder.orientation_source # None
    /\ builder.position_source # None
    /\ builder.landmark_source = None

SetterSlot(op) ==
    CASE op = "set_orientation_source" -> "orientation_source"
      [] op = "set_position_source"    -> "position_source"
      [] op = "set_landmark_source"    -> "landmark_source"
SetterVocabulary(op) ==
    IF op = "set_landmark_source" THEN {"nvm"} ELSE {"imu", "nvm"}
IsSetter(op) ==
    op \in {"set_orientation_source", "set_position_source", "set_landmark_source"}

\* C8: the orientation and position selectors are None, 'imu' or 'nvm' and
\* the landmark selector is None or 'nvm'; a set_* call with a value outside
\* the slot's vocabulary raises DatasetError and leaves the builder as it
\* was, one with a value inside it changes that selector alone; build() never
\* fails with 'Only landmarks from NVM is supported'.
C8_SelectorVocabulary ==
    /\ [](/\ builder.orientation_source \in {None, "imu", "nvm"}
          /\ builder.position_source \in {None, "imu", "nvm"}
          /\ builder.landmark_source \in {None, "nvm"}
          /\ call.op = "build"
                => result.message # "Only landmarks from NVM is supported")
    /\ [][IsSetter(call'.op) =>
            IF call'.source \in SetterVocabulary(call'.op)
            THEN /\ result'.status = "ok"
                 /\ builder' = [builder EXCEPT ![SetterSlot(call'.op)] = call'.source]
            ELSE /\ result'.status = "DatasetError"
                 /\ builder' = builder]_vars

\* C8 witness: set_landmark_source('imu') refused on a builder whose landmark
\* selector stays 'nvm'
C8_Witness ==
    /\ call.op = "set_landmark_source"
    /\ call.source = "imu"
    /\ result.status = "DatasetError"
    /\ builder.landmark_source = "nvm"

\* C9: add_source_nvm succeeds on a builder without a model and afterwards
\* raises DatasetError, add_source_gyro raises DatasetError once one has
\* succeeded, and neither then changes the builder: the stored model and
\* frame rate, and the stored gyro samples, timestamps and integrated cache,
\* stay those of the call that succeeded.
C9_SourcesAddedOnce ==
    [][/\ call'.op = "add_source_nvm" =>
            IF builder.nvm_model = NoneV
            THEN result'.status = "ok" /\ builder'.nvm_model # NoneV
            ELSE result'.status = "DatasetError" /\ builder' = builder
       /\ call'.op = "add_source_gyro" =>
            /\ builder.gyro_quat # NoneV
                  => (result'.status = "DatasetError" /\ builder' = builder)
            /\ result'.status = "ok"
                  => (builder.gyro_quat = NoneV /\ builder'.gyro_quat # NoneV)
       /\ builder.nvm_model # NoneV =>
            /\ builder'.nvm_model = builder.nvm_model
            /\ builder'.nvm_camera_fps = builder.nvm_camera_fps
       /\ builder.gyro_quat # NoneV =>
            /\ builder'.gyro_data = builder.gyro_data
            /\ builder'.gyro_times = builder.gyro_times
            /\ builder'.gyro_quat = builder.gyro_quat]_vars

\* C9 witness: a second, well-formed gyro stream refused by a builder that
\* holds a model and an integrated gyro stream
C9_Witness ==
    /\ call.op = "add_source_gyro"
    /\ call.input = "valid"
    /\ result.status = "DatasetError"
    /\ builder.gyro_quat # NoneV
    /\ builder.nvm_model # NoneV

StoredPoints == Get(builder.nvm_model).points
StoredRows   == Get(builder.gyro_data).rows

\* C11: whatever the selectors with which build() returns, the landmark list
\* of the returned Dataset has one Landmark per point of the stored
\* reconstruction, with the position of the point of the same index and
\* nothing else: the list starts empty in every build().
C11_LandmarksAreThePoints ==
    BuildReturned =>
        /\ Len(result.ds.landmarks) = Len(StoredPoints)
        /\ \A k \in 1..Len(StoredPoints) :
                result.ds.landmarks[k] = [position |-> StoredPoints[k].position]

\* C11 witness: a build that returned the landmarks of two different points
C11_Witness ==
    /\ BuildReturned
    /\ Len(result.ds.landmarks) = 2
    /\ result.ds.landmarks[1] # result.ds.landmarks[2]

\* C12: after every build() that returns, with position='nvm' and with
\* position='imu' alike, the position series has one sample per camera of
\* the stored reconstruction, in ascending frame number, at the time
\* framenumber / camera_fps; and with orientation='imu' the orientation
\* series is integrated from the stored gyro samples, at the timestamps of
\* those samples from some sample to the last one, and holds no camera
\* orientation.
C12_PositionFromModelOrientationFromGyro ==
    BuildReturned =>
        /\ result.ds.position_data # NoneV
        /\ PositionTimes = StoredCameraTimes
        /\ Get(result.ds.position_data).values =
              [k \in 1..Cardinality(StoredFrames) |->
                  CamP(KthSmallest(StoredFrames, k))]
        /\ builder.orientation_source = "imu" =>
              /\ result.ds.orientation_data # NoneV
              /\ LET o == Get(result.ds.orientation_data)
                     g == Len(StoredGyroTimes) - Len(o.timestamps) + 1
                 IN  /\ Len(o.values) = Len(o.timestamps)
                     /\ g \in 1..Len(StoredGyroTimes)
                     /\ o.timestamps = SubSeq(StoredGyroTimes, g, Len(StoredGyroTimes))
                     /\ \A k \in 1..Len(o.values) :
                            /\ o.values[k].kind = "gyro"
                            /\ o.values[k].upto = SubSeq(StoredRows, g, g + k - 1)

\* C12 witness: a build that returned with position='imu' and
\* orientation='imu' from a reconstruction of two cameras or more
C12_Witness ==
    /\ BuildReturned
    /\ builder.position_source = "imu"
    /\ builder.orientation_source = "imu"
    /\ Len(PositionTimes) >= 2

\* the orientation series of a returned build, the frame number of the
\* camera whose conjugated orientation the integration started from, and
\* the index of the stored gyro sample the series starts at
BuiltOrientation == Get(result.ds.orientation_data)
ReferenceFrame   == BuiltOrientation.values[1].initial.of.id
ReferenceTime    == Rat(ReferenceFrame, Get(builder.nvm_camera_fps))
StartIndex       == Len(StoredGyroTimes) - Len(BuiltOrientation.timestamps) + 1

\* C15: in a build with orientation='imu' that returns, the alignment is
\* anchored at the camera of the lowest frame number whose time
\* framenumber / camera_fps is >= the first gyro timestamp; it starts at a
\* gyro sample whose timestamp is nearest to that time; and the orientations
\* and timestamps it hands on are equally many and are those of the gyro
\* samples from that index to the last, none before it.
C15_AlignmentAnchorAndStart ==
    (BuildReturned /\ builder.orientation_source = "imu") =>
        /\ ReferenceFrame \in StoredFrames
        /\ RLe(StoredGyroTimes[1], ReferenceTime)
        /\ \A m \in StoredFrames :
              m < ReferenceFrame =>
                RLt(Rat(m, Get(builder.nvm_camera_fps)), StoredGyroTimes[1])
        /\ StartIndex \in 1..Len(StoredGyroTimes)
        /\ \A j \in 1..Len(StoredGyroTimes) :
              RLe(RAbs(RSub(StoredGyroTimes[StartIndex], ReferenceTime)),
                  RAbs(RSub(StoredGyroTimes[j], ReferenceTime)))
        /\ Len(BuiltOrientation.values) = Len(BuiltOrientation.timestamps)
        /\ BuiltOrientation.timestamps =
              SubSeq(StoredGyroTimes, StartIndex, Len(StoredGyroTimes))
        /\ \A k \in 1..Len(BuiltOrientation.values) :
              /\ BuiltOrientation.values[k].upto =
                    SubSeq(StoredRows, StartIndex, StartIndex + k - 1)
              /\ BuiltOrientation.values[k].initial =
                    Conjugate(CamQ(ReferenceFrame))

\* C15 witness: such a build anchored at a camera that is not the one of
\* the lowest frame number
C15_Witness ==
    /\ BuildReturned
    /\ builder.orientation_source = "imu"
    /\ \E m \in StoredFrames : m < ReferenceFrame

\* C21 (as claimed; the code breaks it): every Dataset that build() returns
\* holds a position series and an orientation series, and so the combined
\* trajectory, whatever the selectors, orientation='nvm' with
\* position='imu' included.
C21_BuildHasBothSeries ==
    BuildReturned =>
        /\ result.ds.position_data # NoneV
        /\ result.ds.orientation_data # NoneV
        /\ result.ds.trajectory = "SplinedTrajectory(smoothRotations=False)"

\* C22 (as claimed; the code breaks it): in every builder state build()
\* returns a Dataset or raises DatasetError, and no other kind of error.
C22_BuildRaisesOnlyDatasetError ==
    call.op = "build" => result.status \in {"ok", "DatasetError"}

Succeeded(op) == call.op = op /\ result.status = "ok"
CallCameras   == Get(call.nvm_model).cameras
CallFrames    == {CallCameras[i].framenumber : i \in 1..Len(CallCameras)}

\* the trajectory variant that goes with the series that are set
VariantFor(d) ==
    IF d.position_data = NoneV /\ d.orientation_data = NoneV THEN None
    ELSE IF d.orientation_data = NoneV THEN "SplinedPositionTrajectory"
    ELSE IF d.position_data = NoneV
    THEN "SplinedRotationTrajectory(smoothRotations=False)"
    ELSE "SplinedTrajectory(smoothRotations=False)"

\* C16: the trajectory of a Dataset is always the variant of the series that
\* are set (none, position-only, orientation-only, combined), with rotation
\* smoothing disabled; and after a successful ingestion the series it
\* assigns holds the samples of that call and no others: one per camera of
\* the model for position_from_nvm and orientation_from_nvm, one per
\* timestamp given for orientation_from_gyro.
C16_TrajectoryMatchesSeries ==
    /\ ds.trajectory = VariantFor(ds)
    /\ Succeeded("position_from_nvm") =>
          /\ ds.position_data # NoneV
          /\ Len(Get(ds.position_data).timestamps) = Len(CallCameras)
          /\ {Get(ds.position_data).values[k] : k \in 1..Len(CallCameras)}
                = {CamP(n) : n \in CallFrames}
    /\ Succeeded("orientation_from_nvm") =>
          /\ ds.orientation_data # NoneV
          /\ Len(Get(ds.orientation_data).timestamps) = Len(CallCameras)
          /\ Len(Get(ds.orientation_data).values) = Len(CallCameras)
    /\ Succeeded("orientation_from_gyro") =>
          /\ ds.orientation_data # NoneV
          /\ Get(ds.orientation_data).timestamps = call.gyro_times
          /\ Len(Get(ds.orientation_data).values) = Len(call.gyro_times)

\* C16 witness: an orientation_from_gyro that replaced the three camera
\* orientations of a Dataset holding both series by two gyro samples
C16_Witness ==
    /\ Succeeded("orientation_from_gyro")
    /\ ds.position_data # NoneV
    /\ Len(Get(ds.position_data).timestamps) = 3
    /\ Len(Get(ds.orientation_data).timestamps) = 2
    /\ ds.trajectory = "SplinedTrajectory(smoothRotations=False)"

\* C17: after a successful position_from_nvm the position series has
\* strictly increasing timestamps, its k-th value is the position of the
\* camera with the k-th smallest frame number, at that frame number over
\* camera_fps; and the model with the same cameras listed in any other order
\* gives the same series.
C17_CameraOrderIrrelevant ==
    Succeeded("position_from_nvm") =>
        /\ ds.position_data # NoneV
        /\ StrictlyIncreasing(Get(ds.position_data).timestamps)
        /\ Get(ds.position_data) =
              TimeSeries(
                [k \in 1..Cardinality(CallFrames) |->
                    Rat(KthSmallest(CallFrames, k), Get(call.camera_fps))],
                [k \in 1..Cardinality(CallFrames) |->
                    CamP(KthSmallest(CallFrames, k))])
        /\ \A fl \in Orders(CallFrames) :
              position_from_nvm(NewDataset, Some(NvmModel(fl, 0)),
                                call.frame_to_time_func, call.camera_fps)
                  .ds.position_data = ds.position_data

\* C17 witness: a successful position_from_nvm of three cameras listed with
\* the highest frame number first and the lowest one last
C17_Witness ==
    /\ Succeeded("position_from_nvm")
    /\ Len(CallCameras) = 3
    /\ CallCameras[1].framenumber > CallCameras[2].framenumber
    /\ CallCameras[2].framenumber > CallCameras[3].framenumber

\* the timestamps given are two or more, at one interval
UniformlySpaced(ts) ==
    /\ Len(ts) >= 2
    /\ \A i \in 1..(Len(ts) - 1) : RSub(ts[i + 1], ts[i]) = RSub(ts[2], ts[1])
NonUniformlySpaced(ts) ==
    /\ Len(ts) >= 2
    /\ \E i \in 1..(Len(ts) - 1) : RSub(ts[i + 1], ts[i]) # RSub(ts[2], ts[1])

\* C19: orientation_from_gyro integrates 3-wide samples at uniformly spaced
\* timestamps and succeeds, and takes 3-wide samples on no other timestamps;
\* it takes 4-wide samples as they are, without integration; for 3-wide
\* samples at non-uniform timestamps and for every other width it raises
\* DatasetError and leaves the Dataset (both series, the trajectory and the
\* landmarks) as it was.
C19_GyroOrientationWidths ==
    [][call'.op = "orientation_from_gyro" =>
        /\ (call'.gyro_data.d = 3 /\ UniformlySpaced(call'.gyro_times))
              => (result'.status = "ok" /\ result'.integrated)
        /\ (call'.gyro_data.d = 3 /\ result'.status = "ok")
              => UniformlySpaced(call'.gyro_times)
        /\ call'.gyro_data.d = 4
              => (result'.status = "ok" /\ ~result'.integrated)
        /\ (\/ call'.gyro_data.d = 3 /\ NonUniformlySpaced(call'.gyro_times)
            \/ call'.gyro_data.d \notin {3, 4})
              => (result'.status = "DatasetError" /\ ds' = ds)]_vars

\* C19 witness: 3-wide samples at non-uniform timestamps refused by a
\* Dataset that holds both series
C19_Witness ==
    /\ call.op = "orientation_from_gyro"
    /\ call.gyro_data.d = 3
    /\ NonUniformlySpaced(call.gyro_times)
    /\ result.status = "DatasetError"
    /\ ds.position_data # NoneV
    /\ ds.orientation_data # NoneV

\* C20: a landmarks_from_nvm with a model appends the positions of its
\* points, in their order, to the landmark list as it was (nothing removed
\* or reordered, so the list is the concatenation over the calls so far, and
\* the same model twice gives every landmark twice), and leaves the position
\* series, the orientation series and the trajectory as they were.
C20_LandmarksAppended ==
    [][(call'.op = "landmarks_from_nvm" /\ call'.nvm_model # NoneV) =>
        /\ result'.status = "ok"
        /\ ds'.landmarks =
              ds.landmarks \o
              [k \in 1..Len(Get(call'.nvm_model).points) |->
                  [position |-> Get(call'.nvm_model).points[k].position]]
        /\ ds'.position_data = ds.position_data
        /\ ds'.orientation_data = ds.orientation_data
        /\ ds'.trajectory = ds.trajectory]_vars

\* C20 witness: a model of two points ingested for the second time by a
\* Dataset that holds a position series
C20_Witness ==
    /\ Succeeded("landmarks_from_nvm")
    /\ Len(Get(call.nvm_model).points) = 2
    /\ Len(ds.landmarks) = 4
    /\ ds.landmarks[1] # ds.landmarks[2]
    /\ SubSeq(ds.landmarks, 1, 2) = SubSeq(ds.landmarks, 3, 4)
    /\ ds.position_data # NoneV

\* ------------------------------------------------------------ resampling
IsResample  == call.op = "resample_quaternion_array"
TargetCount == IF call.resize # NoneV THEN Get(call.resize) ELSE Len(call.qa)
FirstTime   == call.timestamps[1]
LastTime    == call.timestamps[Len(call.timestamps)]

\* the differences of consecutive times are those of n times spread evenly
\* from the first to the last, up to the rounding error of two times
SpacedEvenly(ts) ==
    \A k \in 1..(Len(ts) - 1) :
        RLe(RAbs(RSub(RSub(ts[k + 1], ts[k]),
                      RDiv(RSub(ts[Len(ts)], ts[1]), RInt(Len(ts) - 1)))),
            RMul(RInt(2), Ulp))

\* what C13 says of the samples: target_count of them, and with target_count
\* == len(qa) the first and the last one are the original ones
ResampledCount ==
    /\ result.status = "ok"
    /\ Len(result.values) = TargetCount
    /\ Len(result.timestamps) = TargetCount
    /\ (TargetCount = Len(call.qa) /\ TargetCount >= 1) =>
          /\ result.values[1] = call.qa[1]
          /\ result.values[TargetCount] = call.qa[Len(call.qa)]

\* C13 (as claimed): resample_quaternion_array on strictly increasing
\* timestamps returns target_count samples at timestamps evenly spaced from
\* timestamps[0] to timestamps[-1] inclusive; with target_count == len(qa)
\* the first and last output samples are the original first and last ones.
C13_ResampleCountAndEndpoints ==
    IsResample =>
        /\ ResampledCount
        /\ TargetCount >= 1 =>
              /\ result.timestamps[1] = FirstTime
              /\ result.timestamps[TargetCount] = LastTime
              /\ SpacedEvenly(result.timestamps)

\* C13 (amended): ... at timestamps evenly spaced from timestamps[0] to
\* timestamps[-1] inclusive when target_count >= 2; a single target sample
\* is at timestamps[0].
C13_ResampleCountAndSpan ==
    IsResample =>
        /\ ResampledCount
        /\ TargetCount >= 1 => result.timestamps[1] = FirstTime
        /\ TargetCount >= 2 =>
              /\ result.timestamps[TargetCount] = LastTime
              /\ SpacedEvenly(result.timestamps)

\* C13 witness: two samples resampled to three, with a rounding error in a
\* target time
C13_Witness ==
    /\ IsResample
    /\ result.status = "ok"
    /\ Len(call.qa) = 2
    /\ TargetCount = 3
    /\ \E k \in 1..TargetCount : call.err[k] # 0

SameCountUniform ==
    /\ IsResample
    /\ EvenlySpaced(call.timestamps)
    /\ TargetCount = Len(call.qa)

C18_SlerpBranchIsBracketed ==
    IsResample =>
        /\ result.status = "ok"
        /\ TargetCount >= 1 =>
              (result.steps[1].branch = "copy" /\ result.steps[1].i = 1)
        /\ \A k \in 1..TargetCount :
              result.steps[k].branch = "slerp" =>
                /\ result.steps[k].i >= 2
                /\ result.steps[k].prev = result.steps[k].i - 1
                /\ RLt(call.timestamps[result.steps[k].prev], result.timestamps[k])
                /\ RLt(result.timestamps[k], call.timestamps[result.steps[k].i])
                /\ RLt(RZero, result.steps[k].tau)
                /\ RLt(result.steps[k].tau, ROne)

\* C18 witness: a resampling that takes the slerp branch between the last
\* two of three samples
C18_Witness ==
    /\ IsResample
    /\ result.status = "ok"
    /\ Len(call.qa) = 3
    /\ \E k \in 1..TargetCount :
          result.steps[k].branch = "slerp" /\ result.steps[k].i = 3

====
